---------------------------- MODULE Spec2Model ----------------------------
(***************************************************************************)
(* Product chatbot: the Express backend (GET /products, POST /chat with    *)
(* the Gemini delegate), the spreadsheet ingestion script and the browser  *)
(* frontend's sendMessage.                                                 *)
(*                                                                         *)
(* JavaScript strings are sequences of one-character strings, so that      *)
(* toLowerCase, includes, split, replace and the regular expressions are   *)
(* computed character by character.  An optional value (null / undefined)  *)
(* is the empty tuple None, a present one is Some(x) = <<x>>.              *)
(***************************************************************************)
EXTENDS Integers, Sequences, FiniteSets, TLC

VARIABLES
    products,     \* server.js: the in-memory catalog (let products)
    loaded,       \* history: the catalog as it was loaded at startup
    GEMINI_KEY,   \* server.js: process.env.GEMINI_API_KEY
    reqs,         \* server.js: the requests being handled, by arrival slot;
                  \* calls counts the fetches to Gemini, ok is response.ok,
                  \* received what response.text() or .json() resolved to
    rows,         \* convert_xlsx_to_json.js: the spreadsheet rows
    idx,          \* convert_xlsx_to_json.js: forEach position (0-based)
    outProducts,  \* convert_xlsx_to_json.js: const products
    seenSku,      \* convert_xlsx_to_json.js: const seenSku
    errors,       \* convert_xlsx_to_json.js: const errors
    warned,       \* convert_xlsx_to_json.js: the lines given to console.warn
    written,      \* convert_xlsx_to_json.js: the content of the output file
    msgInput,     \* script.js: msgInput.value
    chatbox,      \* script.js: the chat box's children, in order
    inflight,     \* script.js: the fetches sendMessage is awaiting
    nsent         \* script.js history: sendMessage calls that sent a request

vars == <<products, loaded, GEMINI_KEY, reqs, rows, idx, outProducts, seenSku,
          errors, warned, written, msgInput, chatbox, inflight, nsent>>

serverVars == <<products, loaded, GEMINI_KEY, reqs>>
ingestVars == <<rows, idx, outProducts, seenSku, errors, warned, written>>
frontVars  == <<msgInput, chatbox, inflight, nsent>>

None == <<>>
Some(x) == <<x>>

-----------------------------------------------------------------------------
(* Characters and the JavaScript string operations the code uses.          *)

Lowers == <<"a","b","c","d","e","f","g","h","i","j","k","l","m",
            "n","o","p","q","r","s","t","u","v","w","x","y","z">>
Uppers == <<"A","B","C","D","E","F","G","H","I","J","K","L","M",
            "N","O","P","Q","R","S","T","U","V","W","X","Y","Z">>
Digits == <<"0","1","2","3","4","5","6","7","8","9">>

Range(s) == {s[i] : i \in DOMAIN s}

LowerSet == Range(Lowers)
UpperSet == Range(Uppers)
DigitSet == Range(Digits)

\* \s of the regular expressions, and what String.prototype.trim removes
Whitespace == {" ", "\t", "\n", "\r"}

IsDigit(c) == c \in DigitSet
IsAlnum(c) == c \in LowerSet \/ c \in UpperSet \/ c \in DigitSet
\* \w of the regular expressions: [A-Za-z0-9_]
IsWordChar(c) == IsAlnum(c) \/ c = "_"

ToLowerChar(c) ==
    IF c \in UpperSet THEN Lowers[CHOOSE i \in 1..26 : Uppers[i] = c] ELSE c

\* Array.prototype.map, the result built element by element
Map(s, F(_)) == SubSeq([i \in 1..Len(s) |-> F(s[i])], 1, Len(s))

\* String.prototype.toLowerCase
toLowerCase(s) == Map(s, ToLowerChar)

\* hay.includes(needle): needle occurs in hay as a contiguous substring
includes(hay, needle) ==
    \E i \in 0..(Len(hay) - Len(needle)) :
        \A j \in 1..Len(needle) : hay[i + j] = needle[j]

\* s.replace(/[^a-z0-9]/gi, '')
StripNonAlnum(s) == SelectSeq(s, IsAlnum)

KeepsAlnumSpace(c) == IsAlnum(c) \/ c = " "
\* s.replace(/[^a-z0-9 ]/gi, '')
StripNonAlnumSpace(s) == SelectSeq(s, KeepsAlnumSpace)

\* s.replace(/[^0-9]/g, '')
StripNonDigits(s) == SelectSeq(s, IsDigit)

RECURSIVE SplitFrom(_, _, _, _)
SplitFrom(s, i, cur, out) ==
    IF i > Len(s) THEN Append(out, cur)
    ELSE IF s[i] \in Whitespace
         THEN IF i > 1 /\ s[i - 1] \in Whitespace
              THEN SplitFrom(s, i + 1, cur, out)
              ELSE SplitFrom(s, i + 1, <<>>, Append(out, cur))
         ELSE SplitFrom(s, i + 1, Append(cur, s[i]), out)

\* s.split(/\s+/): the pieces between whitespace runs, empty pieces kept
SplitWs(s) == SplitFrom(s, 1, <<>>, <<>>)

\* s.trim()
trim(s) ==
    LET keep == {i \in 1..Len(s) : s[i] \notin Whitespace}
    IN  IF keep = {} THEN <<>>
        ELSE LET lo == CHOOSE i \in keep : \A j \in keep : i <= j
                 hi == CHOOSE i \in keep : \A j \in keep : j <= i
             IN  SubSeq(s, lo, hi)

RECURSIVE NatToStr(_)
NatToStr(n) ==
    IF n < 10 THEN <<Digits[n + 1]>>
    ELSE Append(NatToStr(n \div 10), Digits[(n % 10) + 1])

\* String(v) of an integer or null
String(v) ==
    IF v = None THEN <<"n","u","l","l">>
    ELSE IF v[1] < 0 THEN <<"-">> \o NatToStr(0 - v[1])
    ELSE NatToStr(v[1])

\* Array.prototype.some
Some_(s, P(_)) == \E i \in 1..Len(s) : P(s[i])

\* Array.prototype.slice(0, n)
slice(s, n) == SubSeq(s, 1, IF Len(s) < n THEN Len(s) ELSE n)


-----------------------------------------------------------------------------
(* The regular expressions of POST /chat.                                   *)

\* the quantifier bound of \d{1,6}
MaxDigits == 6

\* how many of the characters from position i on are digits, at most max
RECURSIVE DigitRun(_, _, _)
DigitRun(s, i, max) ==
    IF max = 0 \/ i > Len(s) \/ ~IsDigit(s[i]) THEN 0
    ELSE 1 + DigitRun(s, i + 1, max - 1)

\* the literal lit (lower case) at position i, ignoring case (the i flag)
LiteralAt(s, i, lit) ==
    /\ i + Len(lit) - 1 <= Len(s)
    /\ toLowerCase(SubSeq(s, i, i + Len(lit) - 1)) = lit

\* the first position from i on that holds no whitespace (\s* is greedy)
RECURSIVE SkipWs(_, _)
SkipWs(s, i) ==
    IF i <= Len(s) /\ s[i] \in Whitespace THEN SkipWs(s, i + 1) ELSE i

\* sku[-_ ]?\d{1,6} at position i: the index of its last character, or 0
SkuAltEnd(s, i) ==
    IF ~LiteralAt(s, i, <<"s","k","u">>) THEN 0
    ELSE LET j == i + 3
         IN  IF j <= Len(s) /\ s[j] \in {"-", "_", " "}
                  /\ DigitRun(s, j + 1, MaxDigits) >= 1
             THEN j + DigitRun(s, j + 1, MaxDigits)
             ELSE IF DigitRun(s, j, MaxDigits) >= 1
             THEN j + DigitRun(s, j, MaxDigits) - 1
             ELSE 0

\* product\s*\d{1,6} at position i: the index of its last character, or 0
ProductAltEnd(s, i) ==
    IF ~LiteralAt(s, i, <<"p","r","o","d","u","c","t">>) THEN 0
    ELSE LET k == SkipWs(s, i + 7)
         IN  IF DigitRun(s, k, MaxDigits) >= 1
             THEN k + DigitRun(s, k, MaxDigits) - 1
             ELSE 0

SkuTokenEnd(s, i) ==
    IF SkuAltEnd(s, i) > 0 THEN SkuAltEnd(s, i) ELSE ProductAltEnd(s, i)

\* message.match(/(sku[-_ ]?\d{1,6}|product\s*\d{1,6})/i): Some(match[0]),
\* the leftmost match, or None
SkuMatch(s) ==
    LET at == {i \in 1..Len(s) : SkuTokenEnd(s, i) > 0}
    IN  IF at = {} THEN None
        ELSE LET i == CHOOSE a \in at : \A b \in at : a <= b
             IN  Some(SubSeq(s, i, SkuTokenEnd(s, i)))

\* \b(\d{1,6})\b at position i: a whole digit run of at most six digits
\* with no word character on either side
IdRunAt(s, i) ==
    /\ IsDigit(s[i])
    /\ i = 1 \/ ~IsWordChar(s[i - 1])
    /\ LET n == DigitRun(s, i, MaxDigits + 1)
       IN  /\ n <= MaxDigits
           /\ i + n > Len(s) \/ ~IsWordChar(s[i + n])

\* message.match(/\b(\d{1,6})\b/): Some(match[1]), or None
IdMatch(s) ==
    LET at == {i \in 1..Len(s) : IdRunAt(s, i)}
    IN  IF at = {} THEN None
        ELSE LET i == CHOOSE a \in at : \A b \in at : a <= b
             IN  Some(SubSeq(s, i, i + DigitRun(s, i, MaxDigits) - 1))

-----------------------------------------------------------------------------
(* POST /chat: the local branches (server.js 68-127).                      *)

\* the hard cap of localMatches.slice(0, 20)
Limit == 20

\* the phrases of the list-all condition, in the order the code tests them
TriggerPhrases ==
    << <<"l","i","s","t">>, <<"n","a","m","e","s">>, <<"s","h","o","w"," ","p","r","o","d","u","c","t","s">>, <<"p","r","o","d","u","c","t"," ","l","i","s","t">>,
       <<"g","i","v","e"," ","t","h","e"," ","l","i","s","t">>, <<"g","i","v","e"," ","l","i","s","t">>, <<"g","i","v","e"," ","t","h","e"," ","l","i","s","t"," ","p","r","o","d","u","c","t">>,
       <<"p","r","o","d","u","c","t"," ","n","a","m","e","s">> >>

\* m.includes("list") || m.includes("names") || ...
ListAllTrigger(m) ==
    \E k \in 1..Len(TriggerPhrases) : includes(m, TriggerPhrases[k])

\* p => String(p.id) === s || (p.sku && p.sku.toLowerCase().includes(s))
SkuTokenHit(p, s) ==
    \/ String(p.id) = s
    \/ p.sku # <<>> /\ includes(toLowerCase(p.sku), s)

\* localMatches after the skuMatch block only (server.js 97-101)
SkuLookup(prods, message) ==
    LET skuMatch == SkuMatch(message)
    IN  IF skuMatch # None
        THEN LET s == StripNonDigits(skuMatch[1])
             IN  SelectSeq(prods, LAMBDA p : SkuTokenHit(p, s))
        ELSE <<>>

\* mutant: the id fallback runs whenever a standalone digit run exists
IdFallbackAlways(prods, message) == IdMatch(message) # None

\* !localMatches.length && idMatch
IdFallbackApplies(prods, message) ==
    Len(SkuLookup(prods, message)) = 0 /\ IdMatch(message) # None

\* direct-lookup: localMatches after the skuMatch and idMatch blocks
\* (server.js 95-106)
DirectLookup(prods, message) ==
    IF IdFallbackApplies(prods, message)
    THEN LET id == IdMatch(message)[1]
         IN  SelectSeq(prods, LAMBDA p : String(p.id) = id)
    ELSE SkuLookup(prods, message)

\* (p.name + ' ' + (p.brand||'') + ' ' + (p.description||'') + ' ' +
\*  (p.category||'')).toLowerCase()
Hay(p) ==
    toLowerCase(p.name \o <<" ">> \o p.brand \o <<" ">> \o p.description
                \o <<" ">> \o p.category)

\* m.split(/\s+/).filter(Boolean).map(w => w.replace(/[^a-z0-9]/gi, ''))
Words(m) ==
    Map(SelectSeq(SplitWs(m), LAMBDA w : w # <<>>), StripNonAlnum)

\* m.split(/\s+/).map(t => t.replace(/[^a-z0-9]/gi, '')).filter(t => t.length >= 3)
AlphaTokens(m) ==
    SelectSeq(Map(SplitWs(m), StripNonAlnum), LAMBDA t : Len(t) >= 3)

\* the filter callback of the fuzzy search (server.js 112-120), given the
\* words and alphaTokens computed before the filter runs
FuzzyHit(p, m, words, alphaTokens) ==
    LET hay == Hay(p)
        anyWord == Some_(words, LAMBDA w : w # <<>> /\ includes(hay, w))
        anyToken == Some_(alphaTokens,
                          LAMBDA t : t # <<>> /\ includes(hay, toLowerCase(t)))
        whole == m # <<>> /\ includes(hay, StripNonAlnumSpace(m))
    IN  anyWord \/ anyToken \/ whole

\* fuzzy-lookup (server.js 107-121)
FuzzyLookup(prods, m) ==
    LET words == Words(m)
        alphaTokens == AlphaTokens(m)
    IN  SelectSeq(prods, LAMBDA p : FuzzyHit(p, m, words, alphaTokens))

\* mutant: the fuzzy search is skipped
LocalMatchesDirectOnly(prods, message) == DirectLookup(prods, message)

\* localMatches at server.js 123
LocalMatches(prods, message) ==
    IF Len(DirectLookup(prods, message)) # 0
    THEN DirectLookup(prods, message)
    ELSE FuzzyLookup(prods, toLowerCase(message))

\* p => ({ id: p.id, sku: p.sku, name: p.name, brand: p.brand, ... })
Summary(p) ==
    [id |-> p.id, sku |-> p.sku, name |-> p.name, brand |-> p.brand,
     category |-> p.category, price |-> p.price, stock |-> p.stock,
     description |-> p.description]

\* mutant: the matches are projected without slice(0, 20)
LimitedNoCap(localMatches) == Map(localMatches, Summary)

\* localMatches.slice(0, 20).map(...)
Limited(localMatches) == Map(slice(localMatches, Limit), Summary)

Name(p) == p.name

\* A JSON response body; an absent key is None.
Body(reply, prods, error, details) ==
    [reply |-> reply, products |-> prods, error |-> error, details |-> details]

Reply(branch, status, body) ==
    [branch |-> branch, status |-> status, body |-> body]

\* mutant: the lookup runs before the list-all test
ChatLocalLookupFirst(prods, message) ==
    IF message = <<>>
    THEN Reply("empty", 400, Body(None, None, Some("Message is required"), None))
    ELSE LET localMatches == LocalMatches(prods, message)
         IN  IF Len(localMatches) # 0
             THEN Reply("lookup", 200,
                        Body(Some(<<"Found ", Len(localMatches),
                                    " matching product(s).">>),
                             Some(Limited(localMatches)), None, None))
             ELSE IF ListAllTrigger(toLowerCase(message))
             THEN Reply("listAll", 200,
                        Body(Some(<<"Here are the product names:">>),
                             Some(Map(prods, Name)), None, None))
             ELSE Reply("delegate", 0, Body(None, None, None, None))

\* The synchronous part of the /chat handler: the reply of the branch taken,
\* or branch "delegate" when the Gemini section is entered.
ChatLocal(prods, message) ==
    IF message = <<>>
    THEN Reply("empty", 400, Body(None, None, Some("Message is required"), None))
    ELSE IF ListAllTrigger(toLowerCase(message))
    THEN Reply("listAll", 200,
               Body(Some(<<"Here are the product names:">>),
                    Some(Map(prods, Name)), None, None))
    ELSE LET localMatches == LocalMatches(prods, message)
         IN  IF Len(localMatches) # 0
             THEN Reply("lookup", 200,
                        Body(Some(<<"Found ", Len(localMatches),
                                    " matching product(s).">>),
                             Some(Limited(localMatches)), None, None))
             ELSE Reply("delegate", 0, Body(None, None, None, None))

\* mutant: the term is compared with the name only, case-sensitively
SearchNameOnly(prods, q) ==
    IF q # <<>> THEN SelectSeq(prods, LAMBDA p : includes(p.name, q)) ELSE prods

\* GET /products, the filter (server.js 44-56): q is req.query.q; an absent
\* parameter is None, which is falsy like ''
Search(prods, q) ==
    IF q # <<>>
    THEN LET s == toLowerCase(q)
         IN  SelectSeq(prods, LAMBDA p :
                 \/ includes(toLowerCase(p.name), s)
                 \/ includes(toLowerCase(p.description), s)
                 \/ includes(toLowerCase(p.category), s))
    ELSE prods

\* GET /products, the response (server.js 43, 58-61): names is
\* req.query.names
ProductsQuery(prods, names, q) ==
    LET namesOnly == names = Some("true")
        result == Search(prods, q)
    IN  IF namesOnly THEN Map(result, Name) ELSE result

-----------------------------------------------------------------------------
(* POST /chat: the Gemini section (server.js 129-172).                     *)

\* !GEMINI_KEY: undefined and '' are both falsy
KeyMissing(key) == key = None \/ key = Some("")

KeyMissingReply ==
    Reply("delegate", 500,
          Body(None, None,
               Some("Gemini API key missing. Add GEMINI_API_KEY in .env file."),
               None))

\* the catch block
FailedReply ==
    Reply("delegate", 500, Body(None, None, Some("Gemini request failed."), None))

\* !response.ok, after response.text() gave text
UpstreamErrorReply(text) ==
    Reply("delegate", 502,
          Body(None, None, Some("Gemini request failed."), Some(text)))

\* data.candidates[0].content.parts[0].text, None when the path is absent
FirstPartText(data) ==
    IF Len(data.candidates) = 0 THEN None
    ELSE IF data.candidates[1].content = None THEN None
    ELSE IF Len(data.candidates[1].content[1].parts) = 0 THEN None
    ELSE data.candidates[1].content[1].parts[1].text

\* mutant: the text is used as it is, without the placeholder
AiTextAsIs(data) ==
    LET t == FirstPartText(data)
    IN  IF t # None THEN t[1] ELSE ""

\* (data && data.candidates && ... .text) || "No response."
AiText(data) ==
    LET t == FirstPartText(data)
    IN  IF t # None /\ t # Some("") THEN t[1] ELSE "No response."

SuccessReply(data) ==
    Reply("delegate", 200, Body(Some(<<AiText(data)>>), None, None, None))

-----------------------------------------------------------------------------
(* Catalogs, messages and upstream answers the model draws from.           *)

\* how many fragments a chat message is built from, at most
MaxFrags == 2
\* how many products the large catalog has beyond the cap of 20
Extra == 2
\* how many requests may be in progress at once (specification SpecConc)
MaxInFlight == 2

Product(id, sku, name, brand, category, price, stock, description) ==
    [id |-> id, sku |-> sku, name |-> name, brand |-> brand,
     category |-> category, price |-> price, stock |-> stock,
     description |-> description]

\* the catalog of the spec's scenario (price in cents)
BlueJacket ==
    Product(Some(1), <<"T","X","J","0","0","1">>, <<"B","l","u","e"," ","J","a","c","k","e","t">>, <<"A","c","m","e">>, <<"O","u","t","e","r","w","e","a","r">>,
            Some(4999), Some(10), <<"W","a","r","m"," ","b","l","u","e"," ","j","a","c","k","e","t">>)
RedScarf ==
    Product(Some(5), <<"T","X","J","0","0","5">>, <<"R","e","d"," ","S","c","a","r","f">>, <<>>, <<"A","c","c","e","s","s","o","r","i","e","s">>,
            None, Some(0), <<>>)
\* same sku as BlueJacket: the server accepts a catalog with duplicate keys
GreenHat ==
    Product(Some(7), <<"t","x","j","0","0","1">>, <<"G","r","e","e","n"," ","H","a","t">>, <<"A","c","m","e">>, <<>>,
            Some(1500), None, <<"W","o","o","l"," ","h","a","t",","," ","l","i","s","t","e","d"," ","t","w","i","c","e">>)
\* the ingestion script writes id: null for a row without an id
Mug ==
    Product(None, <<"M","U","G","-","1","2">>, <<"M","u","g">>, <<>>, <<"K","i","t","c","h","e","n">>, Some(300), Some(4),
            <<"B","l","u","e"," ","m","u","g">>)

CatScenario == <<BlueJacket>>
CatSmall == <<BlueJacket, RedScarf, GreenHat, Mug>>
\* more products than the cap, all matching "blue" and "jacket"
CatBig ==
    [i \in 1..(Limit + Extra) |->
        Product(Some(i), <<"B","J">> \o NatToStr(100 + i), <<"B","l","u","e"," ","J","a","c","k","e","t">>, <<>>,
                <<>>, Some(4999), Some(i), <<>>)]

Catalogs == {<<>>, CatScenario, CatSmall, CatBig}

\* products.json as the server finds it at startup
Files ==
    {[kind |-> "absent", content |-> <<>>], [kind |-> "corrupt", content |-> <<>>]}
    \cup {[kind |-> "json", content |-> c] : c \in Catalogs}

\* the catalog load (server.js 27-37)
LoadCatalog(file) == IF file.kind = "json" THEN file.content ELSE <<>>

Keys == {None, Some(""), Some("k")}

Fragments ==
    { <<"l","i","s","t">>, <<"N","a","m","e","s">>, <<"s","k","u","-","0","0","1">>, <<"s","k","u","-","9">>, <<"p","r","o","d","u","c","t">>, <<" ">>, <<"\t">>,
      <<"5"," ">>, <<"B","l","u","e","!">>, <<"z","z","z">>, <<"1","2","3","4","5","6","7">> }

RECURSIVE Concats(_)
Concats(n) ==
    IF n = 0 THEN {<<>>}
    ELSE LET prev == Concats(n - 1)
         IN  prev \cup {m \o f : m \in prev, f \in Fragments}

\* req.body.message
Messages == Concats(MaxFrags)

\* req.query.q and req.query.names
Terms == {<<>>, <<"b","l","u","e">>, <<"J","A","C","K","E","T">>, <<"o","u","t","e","r">>, <<"z","z","z">>, <<"w","o","o","l">>, <<"e">>}
NamesParams == {None, Some("true"), Some("1")}

\* the messages and terms of the overlapping requests of SpecConc
ConcMessages == { <<"l","i","s","t">>, <<"s","k","u","-","0","0","1">>, <<"z","z","z">> }
ConcTerms == {<<>>, <<"b","l","u","e">>}

\* what response.json() may resolve to
Candidate(content) == [content |-> content]
Content(parts) == [parts |-> parts]
Datas ==
    {[candidates |-> <<>>],
     [candidates |-> <<Candidate(None)>>],
     [candidates |-> <<Candidate(Some(Content(<<>>)))>>],
     [candidates |-> <<Candidate(Some(Content(<<[text |-> None]>>)))>>],
     [candidates |-> <<Candidate(Some(Content(<<[text |-> Some("")]>>)))>>],
     [candidates |-> <<Candidate(Some(Content(<<[text |-> Some("Hello")]>>)))>>]}

\* what response.text() may resolve to on a non-OK response
ErrorTexts == {"", "quota exceeded"}

\* how each await of the Gemini section may settle; None is a rejection
FetchOutcomes == {"reject", "ok", "notok"}
TextOutcomes == {None} \cup {Some(t) : t \in ErrorTexts}
JsonOutcomes == {None} \cup {Some(d) : d \in Datas}

-----------------------------------------------------------------------------
(* The server as a state machine.                                          *)

Slots == 1..MaxInFlight

Idle ==
    [pc |-> "idle", kind |-> "none", message |-> <<>>, names |-> None,
     branch |-> "none", status |-> 0, body |-> None, calls |-> 0,
     ok |-> None, received |-> None]

InitServer ==
    /\ \E file \in Files : products = LoadCatalog(file)
    /\ loaded = products
    /\ GEMINI_KEY \in Keys
    /\ reqs = [i \in Slots |-> Idle]

\* requests take the slots in arrival order
Free(i) == reqs[i].pc = "idle" /\ \A j \in 1..(i - 1) : reqs[j].pc # "idle"

Done(r, reply) ==
    [r EXCEPT !.pc = "done", !.branch = reply.branch, !.status = reply.status,
              !.body = Some(reply.body)]

\* mutant: the filter result is assigned to products
CatalogAfterInPlace(prods, result) == result

\* the catalog after GET /products ran: result is rebound to the new array
\* filter returns, and products is left as it was (server.js 46-56)
CatalogAfter(prods, result) == prods

\* GET /products?names=..&q=..
GetProducts(i, names, q) ==
    /\ Free(i)
    /\ reqs' = [reqs EXCEPT ![i] =
           [Idle EXCEPT !.pc = "done", !.kind = "get", !.message = q,
                        !.names = names, !.status = 200,
                        !.body = Some(ProductsQuery(products, names, q))]]
    /\ products' = CatalogAfter(products, Search(products, q))
    /\ UNCHANGED <<loaded, GEMINI_KEY, ingestVars, frontVars>>

\* POST /chat up to its first await: a local reply, the missing-key reply,
\* or the one fetch of the Gemini section
PostChat(i, message) ==
    /\ Free(i)
    /\ \E local \in {ChatLocal(products, message)} :
           LET r == [Idle EXCEPT !.kind = "chat", !.message = message]
           IN  reqs' = [reqs EXCEPT ![i] =
                   IF local.branch # "delegate" THEN Done(r, local)
                   ELSE IF KeyMissing(GEMINI_KEY) THEN Done(r, KeyMissingReply)
                   ELSE [r EXCEPT !.pc = "fetch", !.branch = "delegate",
                                  !.calls = 1]]
    /\ UNCHANGED <<products, loaded, GEMINI_KEY, ingestVars, frontVars>>

\* await fetch(endpoint, ...) settles: rejected, or a response that is ok or not
FetchSettles(i, outcome) ==
    /\ reqs[i].pc = "fetch"
    /\ reqs' = [reqs EXCEPT ![i] =
           CASE outcome = "reject" -> Done(@, FailedReply)
             [] outcome = "ok"     -> [@ EXCEPT !.pc = "json", !.ok = Some(TRUE)]
             [] outcome = "notok"  -> [@ EXCEPT !.pc = "text", !.ok = Some(FALSE)]]
    /\ UNCHANGED <<products, loaded, GEMINI_KEY, ingestVars, frontVars>>

\* await response.text() settles (server.js 156-160)
TextSettles(i, text) ==
    /\ reqs[i].pc = "text"
    /\ reqs' = [reqs EXCEPT ![i] =
           IF text = None THEN Done(@, FailedReply)
           ELSE Done([@ EXCEPT !.received = text], UpstreamErrorReply(text[1]))]
    /\ UNCHANGED <<products, loaded, GEMINI_KEY, ingestVars, frontVars>>

\* await response.json() settles (server.js 162-167)
JsonSettles(i, data) ==
    /\ reqs[i].pc = "json"
    /\ reqs' = [reqs EXCEPT ![i] =
           IF data = None THEN Done(@, FailedReply)
           ELSE Done([@ EXCEPT !.received = data], SuccessReply(data[1]))]
    /\ UNCHANGED <<products, loaded, GEMINI_KEY, ingestVars, frontVars>>

InitIngestIdle ==
    /\ rows = <<>> /\ idx = 0 /\ outProducts = <<>> /\ seenSku = {}
    /\ errors = <<>> /\ warned = <<>> /\ written = None

InitFrontIdle ==
    /\ msgInput = <<>> /\ chatbox = <<>> /\ inflight = {} /\ nsent = 0

-----------------------------------------------------------------------------
(* The ingestion script (convert_xlsx_to_json.js).  A spreadsheet cell is  *)
(* a number or a string; sheet_to_json gives '' for an empty cell.         *)

\* how many rows the spreadsheet has, at most
MaxRows == 2

\* errors.slice(0, 50)
ReportLimit == 50

Num(n) == [t |-> "num", n |-> n, s |-> <<>>]
Str(s) == [t |-> "str", n |-> 0, s |-> s]

RECURSIVE DigitsToNat(_)
DigitsToNat(s) ==
    IF Len(s) = 0 THEN 0
    ELSE 10 * DigitsToNat(SubSeq(s, 1, Len(s) - 1))
         + (CHOOSE d \in 0..9 : Digits[d + 1] = s[Len(s)])

\* Number(v) of a cell, None for NaN: blank text is 0, decimal digits are
\* their value, other text is NaN
Number(cell) ==
    IF cell.t = "num" THEN Some(cell.n)
    ELSE LET t == trim(cell.s)
         IN  IF t = <<>> THEN Some(0)
             ELSE IF \A k \in 1..Len(t) : IsDigit(t[k]) THEN Some(DigitsToNat(t))
             ELSE None

\* toInteger (the cells of the model hold no fractions to truncate)
toInteger(cell) == IF cell = Str(<<>>) THEN None ELSE Number(cell)

\* toNumber
toNumber(cell) == IF cell = Str(<<>>) THEN None ELSE Number(cell)

\* normalizeString: String(s).trim()
normalizeString(cell) ==
    IF cell.t = "num" THEN String(Some(cell.n)) ELSE trim(cell.s)

\* !id: null and 0 are falsy
Falsy(n) == n = None \/ n = Some(0)

Error(rowNum, kind, value) == [row |-> rowNum, kind |-> kind, value |-> value]

\* the errors one row adds, in the order the checks are made (lines 52-58)
RowErrors(r, rowNum, seen) ==
    LET id == toInteger(r.id)
        sku == normalizeString(r.sku)
        name == normalizeString(r.name)
        price == toNumber(r.price)
        stock == toInteger(r.stock)
    IN  (IF Falsy(id) THEN <<Error(rowNum, "invalid/missing id", <<>>)>> ELSE <<>>)
        \o (IF sku = <<>> THEN <<Error(rowNum, "invalid/missing sku", <<>>)>> ELSE <<>>)
        \o (IF name = <<>> THEN <<Error(rowNum, "invalid/missing name", <<>>)>> ELSE <<>>)
        \o (IF price = None THEN <<Error(rowNum, "invalid/missing price", <<>>)>> ELSE <<>>)
        \o (IF stock = None THEN <<Error(rowNum, "invalid/missing stock", <<>>)>> ELSE <<>>)
        \o (IF sku \in seen THEN <<Error(rowNum, "duplicate sku", sku)>> ELSE <<>>)

\* the product one row becomes (lines 61-70)
RowProduct(r) ==
    Product(IF Falsy(toInteger(r.id)) THEN None ELSE toInteger(r.id),
            normalizeString(r.sku), normalizeString(r.name),
            normalizeString(r.brand), normalizeString(r.category),
            toNumber(r.price), toInteger(r.stock),
            normalizeString(r.description))

IdCells == {Num(1), Num(2), Str(<<>>)}
SkuCells == {Str(<<"A">>), Str(<<" ","A">>), Str(<<"B">>), Str(<<>>)}
StockCells == {Num(3), Str(<<"n","/","a">>)}

Rows ==
    {[id |-> id, sku |-> sku, name |-> Str(<<"M","u","g">>), brand |-> Str(<<>>),
      category |-> Str(<<"K","i","t","c","h","e","n">>), price |-> Str(<<"1","2">>), stock |-> stock,
      description |-> Str(<<>>)] :
        id \in IdCells, sku \in SkuCells, stock \in StockCells}

RECURSIVE SeqsUpTo(_, _)
SeqsUpTo(S, n) ==
    IF n = 0 THEN {<<>>}
    ELSE LET prev == SeqsUpTo(S, n - 1)
         IN  prev \cup {Append(q, x) : q \in prev, x \in S}

InitIngest ==
    /\ rows \in SeqsUpTo(Rows, MaxRows)
    /\ idx = 0 /\ outProducts = <<>> /\ seenSku = {}
    /\ errors = <<>> /\ warned = <<>> /\ written = None

\* one call of the rows.forEach callback (lines 41-71)
ForEachRow ==
    /\ written = None
    /\ idx < Len(rows)
    /\ LET r == rows[idx + 1]
           rowNum == idx + 2
       IN  /\ errors' = errors \o RowErrors(r, rowNum, seenSku)
           /\ seenSku' = seenSku \cup {normalizeString(r.sku)}
           /\ outProducts' = Append(outProducts, RowProduct(r))
    /\ idx' = idx + 1
    /\ UNCHANGED <<rows, warned, written, serverVars, frontVars>>

\* the report and the output file (lines 73-87)
WriteOutput ==
    /\ written = None
    /\ idx = Len(rows)
    /\ warned' = slice(errors, ReportLimit)
    /\ written' = Some(outProducts)
    /\ UNCHANGED <<rows, idx, outProducts, seenSku, errors, serverVars, frontVars>>

InitServerIdle ==
    /\ products = <<>> /\ loaded = <<>> /\ GEMINI_KEY = None
    /\ reqs = [i \in Slots |-> Idle]

IngestInit == InitIngest /\ InitServerIdle /\ InitFrontIdle

NextIngest ==
    \/ ForEachRow
    \/ WriteOutput

SpecIngest == IngestInit /\ [][NextIngest]_vars

-----------------------------------------------------------------------------
(* The frontend's sendMessage (script.js).  A child of the chat box is     *)
(* recorded with its sender, what it shows and the send it belongs to.     *)

\* how many messages the user sends, at most
MaxSends == 2

\* what the user may have typed into the input
Inputs == {<<>>, <<" "," ">>, <<" ","h","i"," ">>, <<"\t","o","k">>}

\* the error statuses the server answers with
ErrStatuses == {400, 502}

\* what res.json() may resolve to: null, or an object that may hold reply
\* and products; a products item is a string, an object or null
Json(isNull, reply, prods) == [isNull |-> isNull, reply |-> reply, products |-> prods]
Replies ==
    {Json(TRUE, None, None),
     Json(FALSE, None, None),
     Json(FALSE, Some("Hello"), None),
     Json(FALSE, Some(""), None),
     Json(FALSE, Some("Here are the product names:"), Some(<<>>)),
     Json(FALSE, Some("Here are the product names:"), Some(<<"string", "string">>)),
     Json(FALSE, Some("Found"), Some(<<"object">>)),
     Json(FALSE, None, Some(<<"object", "null">>)),
     Json(FALSE, None, Some(<<"null">>))}

Entry(sender, shows, of) == [sender |-> sender, shows |-> shows, of |-> of]

\* renderProductsResponse(data) (lines 71-147): the kind of element it
\* appends with addMessageElement, and whether it threw before appending
renderProductsResponse(data) ==
    LET items == data.products[1]
    IN  IF Len(items) = 0 THEN [added |-> <<"No products found.">>, threw |-> FALSE]
        ELSE IF items[1] = "string" THEN [added |-> <<"names">>, threw |-> FALSE]
        ELSE IF \E k \in 1..Len(items) : items[k] = "null"
        THEN [added |-> <<>>, threw |-> TRUE]
        ELSE [added |-> <<"details">>, threw |-> FALSE]

\* mutant: the plain reply is added after the product list as well
BotMessagesOnJsonNoElse(data) ==
    IF data.isNull THEN <<"Network error">>
    ELSE LET rendered == IF data.products # None
                         THEN renderProductsResponse(data)
                         ELSE [added |-> <<>>, threw |-> FALSE]
         IN  IF rendered.threw THEN rendered.added \o <<"Network error">>
             ELSE rendered.added \o
                  <<IF data.reply # None /\ data.reply # Some("")
                    THEN "reply" ELSE "JSON.stringify(data)">>

\* what sendMessage appends for the bot once res.json() gave data
\* (lines 59-68): the catch block adds the network error when the try
\* block threw
BotMessagesOnJson(data) ==
    IF data.isNull THEN <<"Network error">>
    ELSE IF data.products # None
    THEN LET rendered == renderProductsResponse(data)
         IN  IF rendered.threw THEN rendered.added \o <<"Network error">>
             ELSE rendered.added
    ELSE IF data.reply # None /\ data.reply # Some("")
    THEN <<"reply">>
    ELSE <<"JSON.stringify(data)">>

AddBot(shows, of) == chatbox \o [k \in 1..Len(shows) |-> Entry("bot", shows[k], of)]

Pending(id, pc, status) == [id |-> id, pc |-> pc, status |-> status]

InitFront ==
    /\ msgInput \in Inputs /\ chatbox = <<>> /\ inflight = {} /\ nsent = 0

\* the user edits the input
TypeText(text) ==
    /\ msgInput # text
    /\ msgInput' = text
    /\ UNCHANGED <<chatbox, inflight, nsent, serverVars, ingestVars>>

\* sendMessage up to its first await (lines 39-51)
SendMessage ==
    /\ nsent < MaxSends
    /\ LET text == trim(msgInput)
       IN  IF text = <<>>
           THEN UNCHANGED <<msgInput, chatbox, inflight, nsent>>
           ELSE /\ chatbox' = Append(chatbox, Entry("user", text, nsent + 1))
                /\ msgInput' = <<>>
                /\ inflight' = inflight \cup {Pending(nsent + 1, "fetch", 0)}
                /\ nsent' = nsent + 1
    /\ UNCHANGED <<serverVars, ingestVars>>

\* await fetch(...) rejects: the catch block (lines 66-68)
FetchRejects(f) ==
    /\ f \in inflight /\ f.pc = "fetch"
    /\ chatbox' = AddBot(<<"Network error">>, f.id)
    /\ inflight' = inflight \ {f}
    /\ UNCHANGED <<msgInput, nsent, serverVars, ingestVars>>

\* await fetch(...) resolves to a response with this status (lines 47-59)
FetchResolves(f, status) ==
    /\ f \in inflight /\ f.pc = "fetch"
    /\ inflight' = (inflight \ {f}) \cup
           {Pending(f.id, IF status = 200 THEN "json" ELSE "text", status)}
    /\ UNCHANGED <<msgInput, chatbox, nsent, serverVars, ingestVars>>

\* await res.text() settles (lines 53-57); a rejection goes to the catch block
ErrTextSettles(f, resolved) ==
    /\ f \in inflight /\ f.pc = "text"
    /\ chatbox' = AddBot(IF resolved THEN <<"Error: status text">>
                         ELSE <<"Network error">>, f.id)
    /\ inflight' = inflight \ {f}
    /\ UNCHANGED <<msgInput, nsent, serverVars, ingestVars>>

\* await res.json() settles (lines 59-68); None is a rejection
ReplySettles(f, data) ==
    /\ f \in inflight /\ f.pc = "json"
    /\ chatbox' = AddBot(IF data = None THEN <<"Network error">>
                         ELSE BotMessagesOnJson(data[1]), f.id)
    /\ inflight' = inflight \ {f}
    /\ UNCHANGED <<msgInput, nsent, serverVars, ingestVars>>

NextFront ==
    \/ \E text \in Inputs : TypeText(text)
    \/ SendMessage
    \/ \E f \in inflight : FetchRejects(f)
    \/ \E f \in inflight, status \in {200} \cup ErrStatuses : FetchResolves(f, status)
    \/ \E f \in inflight, resolved \in BOOLEAN : ErrTextSettles(f, resolved)
    \/ \E f \in inflight, data \in {None} \cup {Some(d) : d \in Replies} :
           ReplySettles(f, data)

FrontInit == InitFront /\ InitServerIdle /\ InitIngestIdle

SpecFront == FrontInit /\ [][NextFront]_vars

\* one request at a time, every message and every term
Init == InitServer /\ InitIngestIdle /\ InitFrontIdle

Next ==
    \/ \E names \in NamesParams, q \in Terms : GetProducts(1, names, q)
    \/ \E message \in Messages : PostChat(1, message)
    \/ \E outcome \in FetchOutcomes : FetchSettles(1, outcome)
    \/ \E text \in TextOutcomes : TextSettles(1, text)
    \/ \E data \in JsonOutcomes : JsonSettles(1, data)

Spec == Init /\ [][Next]_vars

\* overlapping requests: up to MaxInFlight requests in progress in any
\* interleaving, over a small catalog
InitConc ==
    /\ products \in {CatScenario, CatSmall}
    /\ loaded = products
    /\ GEMINI_KEY \in {None, Some("k")}
    /\ reqs = [i \in Slots |-> Idle]
    /\ InitIngestIdle /\ InitFrontIdle

NextConc ==
    \E i \in Slots :
        \/ \E names \in NamesParams, q \in ConcTerms : GetProducts(i, names, q)
        \/ \E message \in ConcMessages : PostChat(i, message)
        \/ \E outcome \in FetchOutcomes : FetchSettles(i, outcome)
        \/ \E text \in TextOutcomes : TextSettles(i, text)
        \/ \E data \in JsonOutcomes : JsonSettles(i, data)

SpecConc == InitConc /\ [][NextConc]_vars

-----------------------------------------------------------------------------
(* Properties of the server.                                               *)

ChatReqs == {i \in Slots : reqs[i].kind = "chat"}
GetReqs == {i \in Slots : reqs[i].kind = "get"}

\* the n-th smallest element of a set of numbers
Nth(S, n) == CHOOSE k \in S : Cardinality({h \in S : h <= k}) = n

\* the products at the positions in S, in catalog order
AtPositions(prods, S) == [n \in 1..Cardinality(S) |-> prods[Nth(S, n)]]

\* t occurs in field, compared character by character without case
ContainsCI(field, t) ==
    \E i \in 0..(Len(field) - Len(t)) :
        \A j \in 1..Len(t) : ToLowerChar(field[i + j]) = ToLowerChar(t[j])

IsBlank(m) == \A k \in 1..Len(m) : m[k] \in Whitespace

\* the positions of the products a SKU-like token's digits select
TokenHits(prods, message) ==
    LET digits == StripNonDigits(SkuMatch(message)[1])
    IN  {k \in 1..Len(prods) :
            \/ String(prods[k].id) = digits
            \/ ContainsCI(prods[k].sku, digits)}

\* the positions of the products whose id is the first standalone digit run
IdHits(prods, message) ==
    {k \in 1..Len(prods) : String(prods[k].id) = IdMatch(message)[1]}

\* C1: a non-empty message whose lower-cased text contains a list-all
\* trigger phrase is answered at once with the list-all reply, the names of
\* all catalog products in catalog order, whatever SKU token or digit run it
\* also holds; no lookup reply is produced and Gemini is not called.
C1_ListAllWins ==
    \A i \in ChatReqs :
        LET r == reqs[i]
        IN  (r.message # <<>> /\ ListAllTrigger(toLowerCase(r.message))) =>
                /\ r.pc = "done"
                /\ r.branch = "listAll"
                /\ r.status = 200
                /\ r.calls = 0
                /\ r.body[1].reply = Some(<<"Here are the product names:">>)
                /\ r.body[1].products =
                       Some([k \in 1..Len(products) |-> products[k].name])
                /\ r.body[1].error = None

\* C1 witness: a list-all reply to a message whose SKU token matches a product
C1_Witness ==
    \E i \in ChatReqs :
        /\ reqs[i].branch = "listAll"
        /\ SkuMatch(reqs[i].message) # None
        /\ Len(DirectLookup(products, reqs[i].message)) > 0

\* C2 (as claimed): an empty or whitespace-only message is answered with
\* 400 "Message is required", without classification or a call to Gemini.
C2_BlankRejected ==
    \A i \in ChatReqs :
        LET r == reqs[i]
        IN  IsBlank(r.message) =>
                /\ r.pc = "done"
                /\ r.branch = "empty"
                /\ r.status = 400
                /\ r.body[1].error = Some("Message is required")
                /\ r.calls = 0

\* C3: the Gemini section is entered only for a message without a list-all
\* trigger for which direct lookup and fuzzy lookup both found nothing; a
\* request answered by a local branch checked no key and called nothing.
C3_DelegateLast ==
    \A i \in ChatReqs :
        LET r == reqs[i]
            m == r.message
        IN  /\ r.branch = "delegate" =>
                /\ m # <<>>
                /\ ~ListAllTrigger(toLowerCase(m))
                /\ Len(DirectLookup(products, m)) = 0
                /\ Len(FuzzyLookup(products, toLowerCase(m))) = 0
            /\ r.branch \in {"empty", "listAll", "lookup"} =>
                /\ r.pc = "done"
                /\ r.calls = 0
                /\ r.ok = None
                /\ r.status \in {200, 400}
            /\ r.calls > 0 => r.branch = "delegate"
            /\ r.pc \in {"fetch", "text", "json"} => r.branch = "delegate"

\* C3 witness: Gemini was called although the catalog holds products
C3_Witness ==
    \E i \in ChatReqs :
        /\ reqs[i].branch = "delegate"
        /\ reqs[i].calls = 1
        /\ Len(products) > 0

Min(a, b) == IF a < b THEN a ELSE b

\* C4: a lookup reply holds min(20, number of matches) products: the first
\* matches in catalog order, each with the eight summary fields, and never
\* more than 20; the reply text counts all matches.
C4_LookupCapped ==
    \A i \in ChatReqs :
        LET r == reqs[i]
            m == r.message
            direct == IF SkuMatch(m) # None /\ TokenHits(products, m) # {}
                      THEN TokenHits(products, m)
                      ELSE IF IdMatch(m) # None THEN IdHits(products, m)
                      ELSE {}
            hits == IF direct # {} THEN direct
                    ELSE {k \in 1..Len(products) :
                             FuzzyHit(products[k], toLowerCase(m),
                                      Words(toLowerCase(m)),
                                      AlphaTokens(toLowerCase(m)))}
            out == r.body[1].products[1]
        IN  r.branch = "lookup" =>
                /\ Len(out) = Min(20, Cardinality(hits))
                /\ Len(out) <= 20
                /\ \A n \in 1..Len(out) :
                       LET p == products[Nth(hits, n)]
                       IN  /\ DOMAIN out[n] = {"id", "sku", "name", "brand",
                                  "category", "price", "stock", "description"}
                           /\ \A f \in DOMAIN out[n] : out[n][f] = p[f]
                /\ r.body[1].reply =
                       Some(<<"Found ", Cardinality(hits), " matching product(s).">>)

\* C4 witness: more than 20 products match and 20 are returned
C4_Witness ==
    \E i \in ChatReqs :
        /\ reqs[i].branch = "lookup"
        /\ Len(LocalMatches(products, reqs[i].message)) > 20
        /\ Len(reqs[i].body[1].products[1]) = 20

\* C5: GET /products?q=t answers exactly the catalog products with t, case
\* ignored, inside name, description or category, in catalog order; an
\* empty or absent t answers the whole catalog; names=true answers the
\* names of those products, one per product in the same order.
C5_SearchExact ==
    \A i \in GetReqs :
        LET r == reqs[i]
            t == r.message
            hits == {k \in 1..Len(products) :
                        \/ t = <<>>
                        \/ ContainsCI(products[k].name, t)
                        \/ ContainsCI(products[k].description, t)
                        \/ ContainsCI(products[k].category, t)}
            out == r.body[1]
        IN  /\ r.status = 200
            /\ Len(out) = Cardinality(hits)
            /\ \A n \in 1..Len(out) :
                   out[n] = IF r.names = Some("true")
                            THEN products[Nth(hits, n)].name
                            ELSE products[Nth(hits, n)]

\* C5 witness: a names-only search that keeps some products and drops others
C5_Witness ==
    \E i \in GetReqs :
        /\ reqs[i].message # <<>>
        /\ reqs[i].names = Some("true")
        /\ Len(reqs[i].body[1]) > 0
        /\ Len(reqs[i].body[1]) < Len(products)

\* the reply text of a request that Gemini answered
ReplyText(r) == r.body[1].reply[1][1]

\* C6, the parts about the key, the single call and the failures: at most
\* one fetch per request; a missing key answers 500 with the fixed message
\* and no fetch; a rejected fetch, text() or json() answers 500; a non-OK
\* response answers 502 with the raw body as details; an OK response
\* answers 200.
DelegateOutcome(r) ==
    /\ r.calls <= 1
    /\ (r.branch = "delegate" /\ KeyMissing(GEMINI_KEY)) =>
           /\ r.pc = "done" /\ r.calls = 0 /\ r.status = 500
           /\ r.body[1].error =
                  Some("Gemini API key missing. Add GEMINI_API_KEY in .env file.")
    /\ (r.branch = "delegate" /\ ~KeyMissing(GEMINI_KEY)) => r.calls = 1
    /\ (r.pc = "done" /\ r.calls = 1) =>
           IF r.ok = None \/ r.received = None
           THEN r.status = 500 /\ r.body[1].error = Some("Gemini request failed.")
           ELSE IF r.ok = Some(FALSE)
           THEN /\ r.status = 502
                /\ r.body[1].error = Some("Gemini request failed.")
                /\ r.body[1].details = r.received
           ELSE r.status = 200 /\ r.body[1].error = None

\* C6 (as claimed): ... and the 200 reply is the first candidate's first
\* part text, or "No response." when that path is absent.
C6_TextOrPlaceholderIfAbsent ==
    \A i \in ChatReqs :
        LET r == reqs[i]
        IN  /\ DelegateOutcome(r)
            /\ (r.pc = "done" /\ r.ok = Some(TRUE) /\ r.received # None) =>
                   ReplyText(r) =
                       IF FirstPartText(r.received[1]) # None
                       THEN FirstPartText(r.received[1])[1]
                       ELSE "No response."

\* C6 (amended): ... and the 200 reply is the first candidate's first part
\* text when that text is present and not empty, and "No response." when
\* the path is absent or the text is the empty string.
C6_TextOrPlaceholder ==
    \A i \in ChatReqs :
        LET r == reqs[i]
        IN  /\ DelegateOutcome(r)
            /\ (r.pc = "done" /\ r.ok = Some(TRUE) /\ r.received # None) =>
                   ReplyText(r) =
                       IF /\ FirstPartText(r.received[1]) # None
                          /\ FirstPartText(r.received[1])[1] # ""
                       THEN FirstPartText(r.received[1])[1]
                       ELSE "No response."

\* C6 witness: Gemini answered with an empty text and the reply is the
\* placeholder
C6_Witness ==
    \E i \in ChatReqs :
        /\ reqs[i].pc = "done"
        /\ reqs[i].ok = Some(TRUE)
        /\ reqs[i].received # None
        /\ FirstPartText(reqs[i].received[1]) = Some("")
        /\ ReplyText(reqs[i]) = "No response."

\* the response a finished request would get alone against the loaded
\* catalog, given what Gemini answered it
Alone(r) ==
    IF r.kind = "get" THEN Some(ProductsQuery(loaded, r.names, r.message))
    ELSE LET local == ChatLocal(loaded, r.message)
         IN  IF local.branch # "delegate" THEN Some(local.body)
             ELSE IF KeyMissing(GEMINI_KEY) THEN Some(KeyMissingReply.body)
             ELSE IF r.ok = None \/ r.received = None THEN Some(FailedReply.body)
             ELSE IF r.ok = Some(FALSE)
             THEN Some(UpstreamErrorReply(r.received[1]).body)
             ELSE Some(SuccessReply(r.received[1]).body)

\* C7: the catalog is the loaded catalog in every state, whatever requests
\* ran or are suspended, and every finished request holds the response it
\* would get alone against the loaded catalog.
C7_CatalogImmutable ==
    /\ products = loaded
    /\ \A i \in Slots : reqs[i].pc = "done" => reqs[i].body = Alone(reqs[i])

\* C7 witness: a chat request is suspended on Gemini, its response body
\* not yet read, and a search that arrived after it has been answered
C7_Witness ==
    /\ reqs[1].kind = "chat" /\ reqs[1].calls = 1 /\ reqs[1].pc = "json"
    /\ reqs[2].pc = "done" /\ reqs[2].kind = "get"
    /\ Len(reqs[2].body[1]) < Len(products)

\* the chat requests that got past the list-all test
LookedUp == {i \in ChatReqs : reqs[i].branch \in {"lookup", "delegate"}}

-----------------------------------------------------------------------------
(* Properties of the ingestion script and of the frontend.                 *)

\* the spreadsheet rows before row j with the same id, and with the same sku
EarlierSameId(j) ==
    {i \in 1..(j - 1) :
        /\ ~Falsy(toInteger(rows[j].id))
        /\ toInteger(rows[i].id) = toInteger(rows[j].id)}
EarlierSameSku(j) ==
    {i \in 1..(j - 1) : normalizeString(rows[i].sku) = normalizeString(rows[j].sku)}

\* row j of the sheet is row number j + 1 of the report (the header is row 1)
Reported(j, kind) ==
    \E k \in 1..Len(warned) : warned[k].row = j + 1 /\ warned[k].kind = kind

\* C9 (as claimed): once the script has finished, every row whose id is the
\* id of an earlier row and every row whose sku is the sku of an earlier row
\* has a validation error in the report, and the written catalog holds one
\* product per row in row order.
C9_DuplicateKeysReported ==
    written # None =>
        /\ \A j \in 1..Len(rows) :
               /\ EarlierSameId(j) # {} => Reported(j, "duplicate id")
               /\ EarlierSameSku(j) # {} => Reported(j, "duplicate sku")
        /\ Len(written[1]) = Len(rows)
        /\ \A j \in 1..Len(rows) : written[1][j] = RowProduct(rows[j])

Settled == (1..nsent) \ {f.id : f \in inflight}

UserAt(id) == {k \in 1..Len(chatbox) : chatbox[k].sender = "user" /\ chatbox[k].of = id}
BotAt(id) == {k \in 1..Len(chatbox) : chatbox[k].sender = "bot" /\ chatbox[k].of = id}

\* C10: every send of a non-blank input has appended its user message, and
\* has exactly one bot message after it once its request settled (a reply,
\* a product list, an error or a network error) and none before, whatever
\* other sends are in flight and in whatever order the responses arrive; a
\* blank input appended nothing and sent nothing.
C10_OneBotMessagePerSend ==
    /\ \A id \in 1..nsent :
           /\ Cardinality(UserAt(id)) = 1
           /\ \A k \in UserAt(id) :
                  chatbox[k].shows # <<>> /\ chatbox[k].shows = trim(chatbox[k].shows)
           /\ id \notin Settled => BotAt(id) = {}
           /\ id \in Settled =>
                  /\ Cardinality(BotAt(id)) = 1
                  /\ \A b \in BotAt(id), u \in UserAt(id) : u < b
    /\ Len(chatbox) = nsent + Cardinality(Settled)
    /\ \A f \in inflight : f.id \in 1..nsent
    /\ \A k \in 1..Len(chatbox) : chatbox[k].of \in 1..nsent

\* C10 witness: two sends were in flight together and the answer to the
\* second arrived before the answer to the first
C10_Witness ==
    \E k, l \in 1..Len(chatbox) :
        /\ k < l
        /\ chatbox[k].sender = "bot" /\ chatbox[k].of = 2
        /\ chatbox[l].sender = "bot" /\ chatbox[l].of = 1

=============================================================================
